---- MODULE Spec2Model ----
(***************************************************************************)
(* State-machine model of stratux-radar-display: radar.py (traffic table,  *)
(* own-ship situation, presentation loop, input loop) and shutdownui.py    *)
(* (shutdown countdown).                                                   *)
(*                                                                         *)
(* Units.  Distances are kept in quarter nautical miles (qnm), so that the *)
(* code's thresholds RadarRange/2 and RadarRange*0.75 are integers:        *)
(*   gps_rad <= RadarRange        <=>  q <= 4 * RadarRange                 *)
(*   gps_rad <= RadarRange / 2    <=>  q <= 2 * RadarRange                 *)
(*   gps_rad >= RadarRange * 0.75 <=>  q >= 3 * RadarRange                 *)
(* DistanceEstimated is in metres; 463 m = 1852 m / 4 = 1 qnm.             *)
(* Latitude and longitude are counted in the angle that calc_gps_distance  *)
(* converts to one qnm.  Time is in whole seconds.                         *)
(***************************************************************************)
EXTENDS Integers, Sequences, FiniteSets, TLC

\* ---------------------------------------------------------------- constants
RETRY_TIMEOUT == 1
RADAR_CUTOFF == 29
ARCPOSITION_EXCLUDE_FROM == 130
ARCPOSITION_EXCLUDE_TO == 230
SPEED_ARROW_TIME == 60
SHUTDOWN_WAIT_TIME == 6
BLUEZ_CHECK_TIME == 3

\* values returned by display_control.init()
max_pixel == 64
zerox == 32
zeroy == 32

\* ------------------------------------------------------------------- bounds
MaxIds == 2
MaxTime == 2
MaxUiTime == 8

Ids == 1..MaxIds

\* the name argument of the two listen_forever tasks
Handlers == {"TrafficHandler", "SituationHandler"}

\* ------------------------------------------------------------------ helpers
Abs(n) == IF n < 0 THEN -n ELSE n

\* Python round(n / d) for d > 0: round half to even
PyRound(n, d) ==
    LET q == n \div d
        r == n % d
    IN  IF 2 * r < d THEN q
        ELSE IF 2 * r > d THEN q + 1
        ELSE IF q % 2 = 0 THEN q ELSE q + 1

\* dict helpers: a dict is a function whose DOMAIN is its set of keys
EmptyDict == [k \in {} |-> 0]

Put(d, k, v) == [f \in DOMAIN d \cup {k} |-> IF f = k THEN v ELSE d[f]]

Del(d, k) == [f \in DOMAIN d \ {k} |-> d[f]]

Has(d, k) == k \in DOMAIN d

\* math.sin / math.cos of a multiple of 90 degrees (the residue 1e-16 of the
\* floating-point value is absorbed by the rounding of the screen position)
SinDeg(a) ==
    LET m == a % 360
    IN  IF m = 90 THEN 1 ELSE IF m = 270 THEN -1 ELSE 0

CosDeg(a) ==
    LET m == a % 360
    IN  IF m = 0 THEN 1 ELSE IF m = 180 THEN -1 ELSE 0

\* ------------------------------------------------------------------- state
VARIABLES
    situation,            \* radar.py:74  own-ship state, range and limits
    all_ac,               \* radar.py:71  track table: Icao_addr -> dict
    aircraft_changed,     \* radar.py:72
    ui_changed,           \* radar.py:73
    last_arcposition,     \* radar.py:79
    quit_display_task,    \* radar.py:81
    speak,                \* radar.py:83  speech enabled on the command line
    bt_devices,           \* radar.py:84
    sound_on,             \* radar.py:85
    global_mode,          \* radar.py:86  1=Radar 2=Timer 3=Shutdown 4=Refresh
    last_bt_checktime,    \* radar.py:335 local of user_interface
    shutdown_time,        \* shutdownui.py:40
    clear_before_shutoff, \* shutdownui.py:41
    now,                  \* time.time()
    traffic_pc,           \* listen_forever(url_radar_ws): "connecting" | "listening" |
                          \*   "lost_wait" | "retry_wait" | "returned" | "failed"
    situation_pc,         \* listen_forever(url_situation_ws): the same
    wire,                 \* per stream: messages sent by the peer and not yet received
    applied,              \* per stream: serial numbers of the messages handed to the callback
    display_pc,           \* display_and_cutoff: "top" | "sleeping" | "done" | "failed" |
                          \*   "cancelled"
    ui_pc,                \* user_interface: "sleeping" | "refresh_wait" | "done" | "cancelled"
    ev,                   \* the step that was taken last and its input
    spoken,               \* radarbluez.speak calls made by the last step
    host_calls,           \* display_control.cleanup / power-off requests so far
    hyst                  \* per id: what was reported since the last voice alert

vars == <<situation, all_ac, aircraft_changed, ui_changed, last_arcposition,
          quit_display_task, speak, bt_devices, sound_on, global_mode,
          last_bt_checktime, shutdown_time, clear_before_shutoff, now,
          traffic_pc, situation_pc, wire, applied, display_pc, ui_pc, ev, spoken,
          host_calls, hyst>>

trafficVars == <<situation, all_ac, aircraft_changed, last_arcposition, traffic_pc>>

streamVars == <<situation_pc, wire, applied>>

uiVars == <<ui_changed, speak, bt_devices, sound_on, global_mode, last_bt_checktime,
            shutdown_time, clear_before_shutoff, ui_pc>>

\* ------------------------------------------------- thresholds of new_traffic
\* gps_rad <= situation['RadarRange'] and abs(ac['height']) <= situation['RadarLimits']
WithinLimits(q, height, range, limits) == q <= 4 * range /\ Abs(height) <= limits

\* mutant of InHalfRange: a quarter of the range taken for half of it
InQuarterRange(q, range) == 4 * q <= 4 * range

\* gps_rad <= situation['RadarRange'] / 2
InHalfRange(q, range) == q <= 2 * range

\* gps_rad >= situation['RadarRange'] * 0.75   (ADS-B path)
ResetAdsb(q, range) == q >= 3 * range

\* ac['gps_distance'] > situation['RadarRange'] * 0.75   (range-only path)
ResetModeS(q, range) == q > 3 * range

\* traffic['DistanceEstimated'] / 1852.0, in qnm (exact for multiples of 463 m)
QnmOfMetres(m) == m \div 463

\* ------------------------------------------------------------- geometry
\* math.degrees(math.atan(num / den)) for the quotients the inputs produce
AtanDeg(num, den) ==
    IF num = 0 THEN 0
    ELSE IF num = den THEN 45
    ELSE IF num = -den THEN -45
    ELSE CHOOSE a \in {} : TRUE

\* calc_gps_distance: <<distradius, angle>>.  The reports of the model keep the
\* target on the own-ship meridian (lng = situation.longitude), where distlng = 0
\* and the factor abs(cos(avglat)) plays no part.
calc_gps_distance(lat, lng) ==
    LET distlat == lat - situation.latitude
        distlng == lng - situation.longitude
        distradius == CHOOSE r \in 0..(Abs(distlat) + Abs(distlng)) :
                          r * r = distlat * distlat + distlng * distlng
        angle == IF distlat < 0 THEN 180 - AtanDeg(distlng, -distlat)
                 ELSE IF distlat > 0 THEN -AtanDeg(distlng, -distlat)
                 ELSE 0
    IN  <<distradius, angle>>

\* speaktraffic: the text handed to radarbluez.speak; the o'clock part is left
\* out when direction is None (<<>>) or 0
speaktraffic(hdiff, direction) ==
    [clock |-> IF direction # <<>> /\ direction[1] # 0 THEN direction ELSE <<>>,
     sign  |-> IF hdiff < 0 THEN "minus" ELSE "plus",
     feet  |-> Abs(hdiff * 100)]

\* oclock of new_traffic
OClock(res_angle) ==
    LET o1 == PyRound(res_angle, 30)
        o2 == IF o1 <= 0 THEN o1 + 12 ELSE o1
    IN  IF o2 > 12 THEN o2 - 12 ELSE o2

\* mutant of NextArcposition: no second advance out of the excluded sector
AdvanceOnce(p) == (p + 210) % 360

\* the rotating pointer of the range-only arc
NextArcposition(p) ==
    LET p1 == (p + 210) % 360
    IN  IF ARCPOSITION_EXCLUDE_TO >= p1 /\ p1 >= ARCPOSITION_EXCLUDE_FROM
        THEN (p1 + 210) % 360
        ELSE p1

\* ------------------------------------------------------- new_traffic, parts
\* mutant of MaySpeak: was_spoken is not consulted
MaySpeakAlways(ac) == TRUE

\* if not ac['was_spoken']
MaySpeak(ac) == ~ac["was_spoken"]

\* mutant of ClearModeS: the range-only radius is kept
KeepModeS(ac) == ac

\* if 'circradius' in ac: del ac['circradius']
ClearModeS(ac) == IF Has(ac, "circradius") THEN Del(ac, "circradius") ELSE ac

\* the ADS-B branch (Position_valid and own GPS valid): the updated track, the
\* arc pointer and the speaktraffic calls made
AdsbUpdate(ac, traffic) ==
    LET a1 == ClearModeS(ac)
        g == calc_gps_distance(traffic.Lat, traffic.Lng)
        gps_rad == g[1]
        gps_angle == g[2]
        a2 == Put(a1, "gps_distance", gps_rad)
        a3 == IF Has(traffic, "Track")
              THEN Put(a2, "direction", traffic.Track - situation.course)
              ELSE a2
        range == situation.RadarRange
        res_angle == gps_angle - situation.course
        gpsx == SinDeg(res_angle) * gps_rad
        gpsy == -(CosDeg(res_angle) * gps_rad)
        a4 == Put(a3, "x", PyRound(max_pixel * gpsx + zerox * 8 * range, 8 * range))
        a5 == Put(a4, "y", PyRound(max_pixel * gpsy + zeroy * 8 * range, 8 * range))
        a6 == IF Has(a5, "nspeed")
              THEN Put(a5, "nspeed_length",
                       PyRound(max_pixel * a5["nspeed"] * SPEED_ARROW_TIME, 7200 * range))
              ELSE a5
        oclock == OClock(res_angle)
    IN  IF WithinLimits(gps_rad, a3["height"], range, situation.RadarLimits)
        THEN IF InHalfRange(gps_rad, range)
             THEN IF MaySpeak(a6)
                  THEN [ac |-> Put(a6, "was_spoken", TRUE), arc |-> last_arcposition,
                        spoken |-> <<[hdiff |-> a6["height"], direction |-> <<oclock>>,
                                      txt |-> speaktraffic(a6["height"], <<oclock>>)]>>]
                  ELSE [ac |-> a6, arc |-> last_arcposition, spoken |-> <<>>]
             ELSE IF ResetAdsb(gps_rad, range)
                  THEN [ac |-> Put(a6, "was_spoken", FALSE), arc |-> last_arcposition,
                        spoken |-> <<>>]
                  ELSE [ac |-> a6, arc |-> last_arcposition, spoken |-> <<>>]
        ELSE [ac |-> Put(Put(a3, "x", -1), "y", -1), arc |-> last_arcposition,
              spoken |-> <<>>]

\* traffic['DistanceEstimated'] == 0 or traffic['Alt'] == 0
Unusable(traffic) == traffic.DistanceEstimated = 0 \/ traffic.Alt = 0

\* the range-only branch (mode-s traffic or no valid GPS position of stratux)
ModeSUpdate(ac, is_new, traffic) ==
    LET range == situation.RadarRange
        distcirc == QnmOfMetres(traffic.DistanceEstimated)
        distx == PyRound(max_pixel * traffic.DistanceEstimated, 2 * 1852 * range)
        assign == is_new \/ ~Has(ac, "circradius")
        arc == IF assign THEN NextArcposition(last_arcposition) ELSE last_arcposition
        a1 == IF assign THEN Put(ac, "arcposition", arc) ELSE ac
        a2 == Put(a1, "gps_distance", distcirc)
        a3 == Put(a2, "circradius", distx)
    IN  IF Unusable(traffic)
        THEN [ac |-> ac, arc |-> last_arcposition, spoken |-> <<>>]
        ELSE IF InHalfRange(distcirc, range)
             THEN IF MaySpeak(a3)
                  THEN [ac |-> Put(a3, "was_spoken", TRUE), arc |-> arc,
                        spoken |-> <<[hdiff |-> a3["height"], direction |-> <<>>,
                                      txt |-> speaktraffic(a3["height"], <<>>)]>>]
                  ELSE [ac |-> a3, arc |-> arc, spoken |-> <<>>]
             ELSE IF ResetModeS(distcirc, range)
                  THEN [ac |-> Put(a3, "was_spoken", FALSE), arc |-> arc, spoken |-> <<>>]
                  ELSE [ac |-> a3, arc |-> arc, spoken |-> <<>>]

\* ac['last_contact_timestamp'] of new_traffic
ContactTime(traffic) ==
    IF traffic.Age <= traffic.AgeLastAlt
    THEN now - traffic.Age
    ELSE now - traffic.AgeLastAlt

\* the track a new id starts from
NewTrack == Put(Put(EmptyDict, "gps_distance", 0), "was_spoken", FALSE)

\* the aircraft part of new_traffic (the message carries Icao_addr)
AircraftUpdate(traffic) ==
    LET id == traffic.Icao_addr
        is_new == id \notin DOMAIN all_ac
        ac0 == IF is_new THEN NewTrack ELSE all_ac[id]
        ac1 == Put(ac0, "last_contact_timestamp", ContactTime(traffic))
        ac2 == Put(ac1, "height", PyRound(traffic.Alt - situation.own_altitude, 100))
        ac3 == IF traffic.Speed_valid THEN Put(ac2, "nspeed", traffic.Speed) ELSE ac2
        ac4 == Put(ac3, "vspeed", traffic.Vvel)
    IN  IF traffic.Position_valid /\ situation.gps_active
        THEN AdsbUpdate(ac4, traffic)
        ELSE ModeSUpdate(ac4, is_new, traffic)

\* the distance a report carries once it is classified (<<>>: none, the report
\* was unusable)
CarriedDistance(traffic) ==
    IF traffic.Position_valid /\ situation.gps_active
    THEN <<calc_gps_distance(traffic.Lat, traffic.Lng)[1]>>
    ELSE IF traffic.DistanceEstimated = 0 \/ traffic.Alt = 0
         THEN <<>>
         ELSE <<traffic.DistanceEstimated \div 463>>

\* history kept per id for the alert hysteresis:
\*   "quiet"   an alert was spoken, and since then the track stayed in the table
\*             and no report for it carried a distance at or beyond
\*             three-quarters of the range
\*   "excused" an alert was spoken, and since then the track was removed from
\*             the table or a report carried exactly three-quarters of the range,
\*             but no report carried more than that
\*   "free"    no alert was spoken yet, or a report has carried more than
\*             three-quarters of the range since the last one
HystAfterReport(traffic, spoke) ==
    LET id == traffic.Icao_addr
        d == CarriedDistance(traffic)
    IN  IF spoke
        THEN [hyst EXCEPT ![id] = "quiet"]
        ELSE IF hyst[id] = "free" \/ d = <<>>
             THEN hyst
             ELSE IF d[1] > 3 * situation.RadarRange
                  THEN [hyst EXCEPT ![id] = "free"]
                  ELSE IF d[1] = 3 * situation.RadarRange
                       THEN [hyst EXCEPT ![id] = "excused"]
                       ELSE hyst

HystAfterRemoval(removed) ==
    [i \in Ids |-> IF i \in removed /\ hyst[i] = "quiet" THEN "excused" ELSE hyst[i]]

\* ---------------------------------------------------------------- new_traffic
\* a message with RadarRange or RadarLimits.  Reading a key the message does not
\* carry raises KeyError, which listen_forever does not catch: the traffic task
\* ends with what was assigned before.
ControlUpdate(traffic) ==
    IF ~Has(traffic, "RadarRange")
    THEN [situation |-> situation, all_ac |-> all_ac, pc |-> "failed"]
    ELSE LET ch1 == situation.RadarRange # traffic.RadarRange
             s1 == IF ch1 THEN [situation EXCEPT !.RadarRange = traffic.RadarRange]
                   ELSE situation
         IN  IF ~Has(traffic, "RadarLimits")
             THEN [situation |-> s1, all_ac |-> all_ac, pc |-> "failed"]
             ELSE LET ch2 == s1.RadarLimits # traffic.RadarLimits
                      s2 == IF ch2 THEN [s1 EXCEPT !.RadarLimits = traffic.RadarLimits]
                            ELSE s1
                  IN  [situation |-> s2,
                       all_ac |-> IF ch1 \/ ch2 THEN EmptyDict ELSE all_ac,
                       pc |-> "listening"]

\* callback(message) of the traffic stream
new_traffic(traffic) ==
    /\ traffic_pc = "listening"
    /\ aircraft_changed' = TRUE
    /\ ev' = [op |-> "traffic", msg |-> traffic]
    /\ IF Has(traffic, "RadarRange") \/ Has(traffic, "RadarLimits")
       THEN LET r == ControlUpdate(traffic)
            IN  /\ situation' = r.situation
                /\ all_ac' = r.all_ac
                /\ traffic_pc' = r.pc
                /\ hyst' = HystAfterRemoval(DOMAIN all_ac \ DOMAIN r.all_ac)
                /\ spoken' = <<>>
                /\ UNCHANGED last_arcposition
       ELSE IF ~Has(traffic, "Icao_addr")
       THEN /\ spoken' = <<>>
            /\ UNCHANGED <<situation, all_ac, traffic_pc, hyst, last_arcposition>>
       ELSE LET r == AircraftUpdate(traffic)
            IN  /\ all_ac' = Put(all_ac, traffic.Icao_addr, r.ac)
                /\ last_arcposition' = r.arc
                /\ spoken' = r.spoken
                /\ hyst' = HystAfterReport(traffic, r.spoken # <<>>)
                /\ UNCHANGED <<situation, traffic_pc>>
    /\ UNCHANGED <<uiVars, situation_pc, quit_display_task, now, display_pc, host_calls>>

\* ------------------------------------------------------------- new_situation
\* mutant of new_situation: the dirty flag is set by every message
new_situation_dirty(sit) ==
    LET gps_active == sit.GPSHorizontalAccuracy < 19999
        \* round(sit['GPSTrueCourse']); the message gives the course in tenths of a degree
        course == PyRound(sit.GPSTrueCourse, 10)
        s1 == IF ~situation.connected
              THEN [situation EXCEPT !.connected = TRUE, !.was_changed = TRUE]
              ELSE situation
        s2 == IF s1.gps_active # gps_active
              THEN [s1 EXCEPT !.gps_active = gps_active, !.was_changed = TRUE]
              ELSE s1
        s3 == IF s2.course # course
              THEN [s2 EXCEPT !.course = course, !.was_changed = TRUE]
              ELSE s2
        s4 == IF s3.own_altitude # sit.BaroPressureAltitude
              THEN [s3 EXCEPT !.own_altitude = sit.BaroPressureAltitude,
                              !.was_changed = TRUE]
              ELSE s3
        s5 == IF s4.latitude # sit.GPSLatitude
              THEN [s4 EXCEPT !.latitude = sit.GPSLatitude, !.was_changed = TRUE]
              ELSE s4
        s6 == IF s5.longitude # sit.GPSLongitude
              THEN [s5 EXCEPT !.longitude = sit.GPSLongitude, !.was_changed = TRUE]
              ELSE s5
    IN  /\ situation_pc = "listening"
        /\ situation' = [s6 EXCEPT !.was_changed = TRUE]
        /\ ev' = [op |-> "situation", msg |-> sit]
        /\ spoken' = <<>>
        /\ UNCHANGED <<all_ac, aircraft_changed, last_arcposition, traffic_pc,
                       situation_pc, hyst, uiVars, quit_display_task, now, display_pc,
                       host_calls>>

\* callback(message) of the situation stream
new_situation(sit) ==
    LET gps_active == sit.GPSHorizontalAccuracy < 19999
        \* round(sit['GPSTrueCourse']); the message gives the course in tenths of a degree
        course == PyRound(sit.GPSTrueCourse, 10)
        s1 == IF ~situation.connected
              THEN [situation EXCEPT !.connected = TRUE, !.was_changed = TRUE]
              ELSE situation
        s2 == IF s1.gps_active # gps_active
              THEN [s1 EXCEPT !.gps_active = gps_active, !.was_changed = TRUE]
              ELSE s1
        s3 == IF s2.course # course
              THEN [s2 EXCEPT !.course = course, !.was_changed = TRUE]
              ELSE s2
        s4 == IF s3.own_altitude # sit.BaroPressureAltitude
              THEN [s3 EXCEPT !.own_altitude = sit.BaroPressureAltitude,
                              !.was_changed = TRUE]
              ELSE s3
        s5 == IF s4.latitude # sit.GPSLatitude
              THEN [s4 EXCEPT !.latitude = sit.GPSLatitude, !.was_changed = TRUE]
              ELSE s4
        s6 == IF s5.longitude # sit.GPSLongitude
              THEN [s5 EXCEPT !.longitude = sit.GPSLongitude, !.was_changed = TRUE]
              ELSE s5
    IN  /\ situation_pc = "listening"
        /\ situation' = s6
        /\ ev' = [op |-> "situation", msg |-> sit]
        /\ spoken' = <<>>
        /\ UNCHANGED <<all_ac, aircraft_changed, last_arcposition, traffic_pc,
                       situation_pc, hyst, uiVars, quit_display_task, now, display_pc,
                       host_calls>>

\* a message of either feed handed to its callback as it comes in
TrafficMessage(m) == new_traffic(m) /\ UNCHANGED <<wire, applied>>

SituationMessage(m) == new_situation(m) /\ UNCHANGED <<wire, applied>>

\* ------------------------------------------------------------ listen_forever
PcOf(name) == IF name = "TrafficHandler" THEN traffic_pc ELSE situation_pc

SetPc(name, pc) ==
    IF name = "TrafficHandler"
    THEN traffic_pc' = pc /\ UNCHANGED situation_pc
    ELSE situation_pc' = pc /\ UNCHANGED traffic_pc

\* websockets.connect(path) succeeds: the listener loop is entered
ListenConnect(name) ==
    /\ PcOf(name) = "connecting"
    /\ SetPc(name, "listening")
    /\ ev' = [op |-> "stream", name |-> name, what |-> "connected"]
    /\ spoken' = <<>>
    /\ UNCHANGED <<situation, all_ac, aircraft_changed, last_arcposition, wire, applied,
                   uiVars, quit_display_task, now, display_pc, host_calls, hyst>>

\* socket.error or WebSocketException on connecting: the outer handler, then
\* the retry sleep
ListenConnectFailed(name) ==
    /\ PcOf(name) = "connecting"
    /\ SetPc(name, "retry_wait")
    /\ situation' = IF name = "SituationHandler" /\ situation.connected
                    THEN [situation EXCEPT !.connected = FALSE, !.was_changed = TRUE]
                    ELSE situation
    /\ ev' = [op |-> "stream", name |-> name, what |-> "connect_failed"]
    /\ spoken' = <<>>
    /\ UNCHANGED <<all_ac, aircraft_changed, last_arcposition, wire, applied,
                   uiVars, quit_display_task, now, display_pc, host_calls, hyst>>

\* the peer sends a message on the open connection
PeerSend(name, m, limit) ==
    /\ PcOf(name) = "listening"
    /\ Len(applied[name]) + Len(wire[name]) < limit
    /\ wire' = [wire EXCEPT ![name] =
                    Append(@, [nr |-> Len(applied[name]) + Len(wire[name]) + 1, msg |-> m])]
    /\ ev' = [op |-> "peer", name |-> name]
    /\ spoken' = <<>>
    /\ UNCHANGED <<trafficVars, situation_pc, applied, uiVars, quit_display_task, now,
                   display_pc, host_calls, hyst>>

\* mutant of NextMessage: the newest message is received first
NewestMessage(q) == q[Len(q)]

\* the message ws.recv() returns: the oldest one not yet received
NextMessage(q) == Head(q)

\* message = await ws.recv(); callback(message)
ListenReceive(name) ==
    /\ wire[name] # <<>>
    /\ LET e == NextMessage(wire[name])
       IN  /\ IF name = "TrafficHandler" THEN new_traffic(e.msg) ELSE new_situation(e.msg)
           /\ wire' = [wire EXCEPT ![name] = SelectSeq(@, LAMBDA x : x.nr # e.nr)]
           /\ applied' = [applied EXCEPT ![name] = Append(@, e.nr)]

\* ws.recv() raises ConnectionClosed (a clean close by the peer, or a dropped
\* connection) once the messages received before it are handed over: the
\* inner handler, then the sleep before the connection is made anew
ListenClosed(name, clean) ==
    /\ PcOf(name) = "listening"
    /\ wire[name] = <<>>
    /\ SetPc(name, "lost_wait")
    /\ ev' = [op |-> "stream", name |-> name,
              what |-> IF clean THEN "closed" ELSE "dropped"]
    /\ spoken' = <<>>
    /\ UNCHANGED <<situation, all_ac, aircraft_changed, last_arcposition, wire, applied,
                   uiVars, quit_display_task, now, display_pc, host_calls, hyst>>

\* either sleep is over: back to the top of the outer loop
ListenRetry(name) ==
    /\ PcOf(name) \in {"lost_wait", "retry_wait"}
    /\ SetPc(name, "connecting")
    /\ ev' = [op |-> "stream", name |-> name, what |-> "retry"]
    /\ spoken' = <<>>
    /\ UNCHANGED <<situation, all_ac, aircraft_changed, last_arcposition, wire, applied,
                   uiVars, quit_display_task, now, display_pc, host_calls, hyst>>

\* ------------------------------------------------------------------ drawing
\* mutant of dist_sorted: the tracks in id order, whatever their distance
id_sorted(allac) ==
    LET n == Cardinality(DOMAIN allac)
    IN  CHOOSE s \in [1..n -> DOMAIN allac] : \A i, j \in 1..n : i < j => s[i] < s[j]

\* sorted(allac.items(), key=gps_distance, reverse=True): the ids, farthest
\* first (tracks at the same distance are taken in id order)
dist_sorted(allac) ==
    LET n == Cardinality(DOMAIN allac)
    IN  CHOOSE s \in [1..n -> DOMAIN allac] :
            \A i, j \in 1..n :
                i < j => \/ allac[s[i]]["gps_distance"] > allac[s[j]]["gps_distance"]
                         \/ /\ allac[s[i]]["gps_distance"] = allac[s[j]]["gps_distance"]
                            /\ s[i] < s[j]

\* the tracks draw_all_ac hands to display_control.modesaircraft
DrawnModeS(allac) ==
    SelectSeq(dist_sorted(allac),
              LAMBDA i : Has(allac[i], "circradius")
                         /\ 2 * allac[i]["circradius"] <= max_pixel)

\* the tracks draw_all_ac hands to display_control.aircraft
DrawnAdsb(allac) ==
    SelectSeq(dist_sorted(allac),
              LAMBDA i : Has(allac[i], "x")
                         /\ 0 < allac[i]["x"] /\ allac[i]["x"] <= max_pixel
                         /\ allac[i]["y"] <= max_pixel)

\* the keys the two display_control calls read
ModeSKeys == {"circradius", "height", "arcposition"}

AdsbKeys == {"x", "y", "direction", "height", "vspeed"}

\* draw_all_ac raises KeyError when a track it draws lacks a key it reads
DrawRaises(allac) ==
    \/ \E k \in 1..Len(DrawnModeS(allac)) :
           ~(ModeSKeys \subseteq DOMAIN allac[DrawnModeS(allac)[k]])
    \/ \E k \in 1..Len(DrawnAdsb(allac)) :
           ~(AdsbKeys \subseteq DOMAIN allac[DrawnAdsb(allac)[k]])

\* draw_all_ac: the render-target calls, in order
draw_all_ac(allac) ==
    [k \in 1..Len(DrawnModeS(allac)) |-> <<"modesaircraft", DrawnModeS(allac)[k]>>]
    \o [k \in 1..Len(DrawnAdsb(allac)) |-> <<"aircraft", DrawnAdsb(allac)[k]>>]

\* situation['was_changed'] or aircraft_changed or ui_changed
Dirty == situation.was_changed \/ aircraft_changed \/ ui_changed

\* ------------------------------------------------------- shutdownui.py
\* draw_shutdown: the render-target and host calls, and the value returned
draw_shutdown_calls ==
    (IF shutdown_time > 0 THEN <<"clear", "shutdown", "display">> ELSE <<>>)
    \o (IF clear_before_shutoff THEN <<"cleanup", "poweroff">> ELSE <<>>)

\* mutant of shutdown_user_input: the countdown is started anew on every tick
shutdown_user_input_restart(pressed) ==
    LET st == now + SHUTDOWN_WAIT_TIME
    IN  IF pressed
        THEN <<0, clear_before_shutoff, 1>>
        ELSE IF now > st
             THEN <<st, TRUE, 3>>
             ELSE <<st, clear_before_shutoff, 3>>

\* shutdownui.user_input: <<shutdown_time, clear_before_shutoff, next mode>>
shutdown_user_input(pressed) ==
    LET st == IF shutdown_time = 0 THEN now + SHUTDOWN_WAIT_TIME ELSE shutdown_time
    IN  IF pressed
        THEN <<0, clear_before_shutoff, 1>>
        ELSE IF now > st
             THEN <<st, TRUE, 3>>
             ELSE <<st, clear_before_shutoff, 3>>

\* ------------------------------------------------------ display_and_cutoff
\* mutant of DisplayBusy: the busy branch goes straight back to the top
DisplayBusyNoSweep ==
    /\ display_pc = "top"
    /\ ~quit_display_task
    /\ display_pc' = "top"
    /\ ev' = [op |-> "display", busy |-> TRUE, mode |-> global_mode, calls |-> <<>>]
    /\ spoken' = <<>>
    /\ UNCHANGED <<trafficVars, streamVars, uiVars, quit_display_task, now, host_calls,
                   hyst>>

\* top of the loop, render target busy: sleep and go on to the sweep
DisplayBusy ==
    /\ display_pc = "top"
    /\ ~quit_display_task
    /\ display_pc' = "sleeping"
    /\ ev' = [op |-> "display", busy |-> TRUE, mode |-> global_mode, calls |-> <<>>]
    /\ spoken' = <<>>
    /\ UNCHANGED <<trafficVars, streamVars, uiVars, quit_display_task, now, host_calls,
                   hyst>>

\* top of the loop with quit_display_task set: the task returns
DisplayQuit ==
    /\ display_pc = "top"
    /\ quit_display_task
    /\ display_pc' = "done"
    /\ ev' = [op |-> "display", busy |-> FALSE, mode |-> global_mode, calls |-> <<>>]
    /\ spoken' = <<>>
    /\ UNCHANGED <<trafficVars, streamVars, uiVars, quit_display_task, now, host_calls,
                   hyst>>

\* top of the loop, render target idle: the draw routine of the active mode
DisplayDraw ==
    /\ display_pc = "top"
    /\ ~quit_display_task
    /\ spoken' = <<>>
    /\ UNCHANGED <<all_ac, last_arcposition, traffic_pc, streamVars, quit_display_task,
                   now, hyst, speak, bt_devices, sound_on, last_bt_checktime,
                   shutdown_time, ui_pc>>
    /\ IF global_mode = 1
       THEN IF ~Dirty
            THEN /\ display_pc' = "sleeping"
                 /\ ev' = [op |-> "display", busy |-> FALSE, mode |-> 1, calls |-> <<>>]
                 /\ UNCHANGED <<situation, aircraft_changed, ui_changed, global_mode,
                                clear_before_shutoff, host_calls>>
            ELSE IF DrawRaises(all_ac)
            THEN /\ display_pc' = "failed"
                 /\ ev' = [op |-> "display", busy |-> FALSE, mode |-> 1,
                           calls |-> <<<<"clear">>, <<"situation">>>>]
                 /\ UNCHANGED <<situation, aircraft_changed, ui_changed, global_mode,
                                clear_before_shutoff, host_calls>>
            ELSE /\ display_pc' = "sleeping"
                 /\ ev' = [op |-> "display", busy |-> FALSE, mode |-> 1,
                           calls |-> <<<<"clear">>, <<"situation">>>> \o draw_all_ac(all_ac)
                                     \o <<<<"display">>>>]
                 /\ situation' = [situation EXCEPT !.was_changed = FALSE]
                 /\ aircraft_changed' = FALSE
                 /\ ui_changed' = FALSE
                 /\ UNCHANGED <<global_mode, clear_before_shutoff, host_calls>>
       ELSE IF global_mode = 2
       THEN /\ display_pc' = "sleeping"
            /\ ev' = [op |-> "display", busy |-> FALSE, mode |-> 2,
                      calls |-> <<<<"draw_timer">>>>]
            /\ UNCHANGED <<situation, aircraft_changed, ui_changed, global_mode,
                           clear_before_shutoff, host_calls>>
       ELSE IF global_mode = 3
       THEN /\ display_pc' = IF clear_before_shutoff THEN "done" ELSE "sleeping"
            /\ ev' = [op |-> "display", busy |-> FALSE, mode |-> 3,
                      calls |-> [k \in 1..Len(draw_shutdown_calls) |->
                                    <<draw_shutdown_calls[k]>>]]
            /\ host_calls' = host_calls \o SelectSeq(draw_shutdown_calls,
                                 LAMBDA c : c \in {"cleanup", "poweroff"})
            /\ clear_before_shutoff' = FALSE
            /\ UNCHANGED <<situation, aircraft_changed, ui_changed, global_mode>>
       ELSE IF global_mode = 4
       THEN /\ display_pc' = "sleeping"
            /\ ev' = [op |-> "display", busy |-> FALSE, mode |-> 4,
                      calls |-> <<<<"refresh">>>>]
            /\ global_mode' = 1
            /\ UNCHANGED <<situation, aircraft_changed, ui_changed,
                           clear_before_shutoff, host_calls>>
       ELSE /\ display_pc' = "sleeping"
            /\ ev' = [op |-> "display", busy |-> FALSE, mode |-> global_mode,
                      calls |-> <<>>]
            /\ UNCHANGED <<situation, aircraft_changed, ui_changed, global_mode,
                           clear_before_shutoff, host_calls>>

\* mutant of Stale: a track exactly at the cutoff is removed as well
StaleOrAtCutoff(ac, t) == ac["last_contact_timestamp"] <= t - RADAR_CUTOFF

\* ac['last_contact_timestamp'] < cutoff, with cutoff = time.time() - RADAR_CUTOFF
Stale(ac, t) == ac["last_contact_timestamp"] < t - RADAR_CUTOFF

\* after the sleep: the cutoff sweep, then back to the top of the loop
DisplaySweep ==
    /\ display_pc = "sleeping"
    /\ LET to_delete == {i \in DOMAIN all_ac : Stale(all_ac[i], now)}
       IN  /\ all_ac' = [i \in DOMAIN all_ac \ to_delete |-> all_ac[i]]
           /\ aircraft_changed' = (aircraft_changed \/ to_delete # {})
           /\ hyst' = HystAfterRemoval(to_delete)
           /\ ev' = [op |-> "sweep", to_delete |-> to_delete]
    /\ display_pc' = "top"
    /\ spoken' = <<>>
    /\ UNCHANGED <<situation, last_arcposition, traffic_pc, streamVars, uiVars,
                   quit_display_task, now, host_calls>>

\* the clock advances by one second, up to the horizon given
Tick(limit) ==
    /\ now < limit
    /\ now' = now + 1
    /\ ev' = [op |-> "tick"]
    /\ spoken' = <<>>
    /\ UNCHANGED <<trafficVars, streamVars, uiVars, quit_display_task, display_pc,
                   host_calls, hyst>>

\* --------------------------------------------------------- shutdown_tasks
\* what cancel() makes of a listen_forever task: CancelledError is caught at
\* ws.recv() only
CancelledStream(pc) ==
    IF pc = "listening" THEN "returned"
    ELSE IF pc \in {"connecting", "lost_wait", "retry_wait"} THEN "cancelled"
    ELSE pc

\* the task quit_gracefully creates on SIGINT.  asyncio.sleep(...) is called
\* without await, so the task runs from the flag to the cleanup without a
\* suspension: every other task is at an await and gets CancelledError there.
shutdown_tasks ==
    /\ ~quit_display_task
    /\ quit_display_task' = TRUE
    /\ traffic_pc' = CancelledStream(traffic_pc)
    /\ situation_pc' = CancelledStream(situation_pc)
    /\ display_pc' = IF display_pc \in {"top", "sleeping"} THEN "cancelled" ELSE display_pc
    /\ ui_pc' = IF ui_pc \in {"sleeping", "refresh_wait"} THEN "cancelled" ELSE ui_pc
    /\ host_calls' = Append(host_calls, "cleanup")
    /\ ev' = [op |-> "signal", calls |-> <<"flag", "cancel", "cleanup">>]
    /\ spoken' = <<>>
    /\ UNCHANGED <<situation, all_ac, aircraft_changed, last_arcposition, wire, applied,
                   ui_changed, speak, bt_devices, sound_on, global_mode,
                   last_bt_checktime, shutdown_time, clear_before_shutoff, now, hyst>>

\* ------------------------------------------------------------ user_interface
\* the bluetooth check at the end of a tick: <<last_bt_checktime, bt_devices,
\* changed, speak calls>>
bluez_check(new_devices) ==
    IF speak /\ now > last_bt_checktime + BLUEZ_CHECK_TIME
    THEN <<now, new_devices, new_devices # bt_devices,
           IF new_devices > bt_devices THEN <<[txt |-> "Radar connected"]>> ELSE <<>>>>
    ELSE <<last_bt_checktime, bt_devices, FALSE, <<>>>>

\* the rest of a tick once next_mode is known
UiFinish(next_mode, sound_toggled, new_devices, what) ==
    LET b == bluez_check(new_devices)
    IN  /\ global_mode' = IF next_mode > 0 THEN next_mode ELSE global_mode
        /\ ui_changed' = (ui_changed \/ sound_toggled \/ next_mode > 0 \/ b[3])
        /\ last_bt_checktime' = b[1]
        /\ bt_devices' = b[2]
        /\ spoken' = b[4]
        /\ ui_pc' = IF quit_display_task THEN "done" ELSE "sleeping"
        /\ ev' = what
        /\ UNCHANGED <<trafficVars, streamVars, speak, quit_display_task, now,
                       display_pc, host_calls, hyst>>

\* a tick in Radar mode: radarui.user_input gives the next mode (0: none) and
\* whether sound is toggled
UiRadar(next_mode, toggle_sound, new_devices) ==
    /\ ui_pc = "sleeping"
    /\ global_mode = 1
    /\ sound_on' = IF toggle_sound THEN ~sound_on ELSE sound_on
    /\ UNCHANGED <<shutdown_time, clear_before_shutoff>>
    /\ UiFinish(next_mode, toggle_sound, new_devices,
                [op |-> "ui", mode |-> 1, next_mode |-> next_mode, pressed |-> FALSE])

\* a tick in Timer mode: timerui.user_input gives the next mode (0: none)
UiTimer(next_mode, new_devices) ==
    /\ ui_pc = "sleeping"
    /\ global_mode = 2
    /\ UNCHANGED <<sound_on, shutdown_time, clear_before_shutoff>>
    /\ UiFinish(next_mode, FALSE, new_devices,
                [op |-> "ui", mode |-> 2, next_mode |-> next_mode, pressed |-> FALSE])

\* a tick in Shutdown mode: shutdownui.user_input, with the button state read
UiShutdown(pressed, new_devices) ==
    /\ ui_pc = "sleeping"
    /\ global_mode = 3
    /\ LET r == shutdown_user_input(pressed)
       IN  /\ shutdown_time' = r[1]
           /\ clear_before_shutoff' = r[2]
           /\ UNCHANGED sound_on
           /\ UiFinish(r[3], FALSE, new_devices,
                       [op |-> "ui", mode |-> 3, next_mode |-> r[3], pressed |-> pressed])

\* a tick in Refresh mode, first half: the task sleeps again before it goes on
UiRefreshWait ==
    /\ ui_pc = "sleeping"
    /\ global_mode = 4
    /\ ui_pc' = "refresh_wait"
    /\ ev' = [op |-> "ui", mode |-> 4, next_mode |-> 0, pressed |-> FALSE]
    /\ spoken' = <<>>
    /\ UNCHANGED <<trafficVars, streamVars, ui_changed, speak, bt_devices, sound_on, global_mode,
                   last_bt_checktime, shutdown_time, clear_before_shutoff,
                   quit_display_task, now, display_pc, host_calls, hyst>>

\* second half of that tick, and a tick in a mode none of the branches names:
\* next_mode keeps its initial value 1
UiDefault(new_devices) ==
    /\ \/ ui_pc = "refresh_wait"
       \/ ui_pc = "sleeping" /\ global_mode \notin {1, 2, 3, 4}
    /\ UNCHANGED <<sound_on, shutdown_time, clear_before_shutoff>>
    /\ UiFinish(1, FALSE, new_devices,
                [op |-> "ui", mode |-> global_mode, next_mode |-> 1, pressed |-> FALSE])

\* --------------------------------------------------------------------- inputs
\* control messages that carry both keys
LimitMessages ==
    {[RadarRange |-> 5, RadarLimits |-> 10000], [RadarRange |-> 5, RadarLimits |-> 500]}

RangeMessages ==
    {[RadarRange |-> 5, RadarLimits |-> 10000], [RadarRange |-> 10, RadarLimits |-> 10000]}

\* control messages that carry only one of the keys
PartialMessages == {[RadarRange |-> 10], [RadarRange |-> 5], [RadarLimits |-> 500]}

\* a steering message: neither control keys nor Icao_addr
SteeringMessages == {[Info |-> 0]}

\* <<Age, AgeLastAlt>>: a fresh report, and one whose younger part is 29 s old
AgePairs == {<<0, 29>>, <<30, 29>>}

\* target latitudes, own-ship at latitude 0, in qnm: 2 nm, 3.75 nm, 6 nm
Lats == {8, 15, 24}

\* estimated distances in metres: none, 2 nm, 4 nm
Distances == {0, 8 * 463, 16 * 463}

\* an aircraft report; full reports carry Track and a valid speed, sparse ones
\* neither
Report(i, ages, alt, full, pv, lat, d) ==
    LET m == [Icao_addr |-> i, Age |-> ages[1], AgeLastAlt |-> ages[2], Alt |-> alt,
              Speed_valid |-> full, Speed |-> 120, Vvel |-> 0, Position_valid |-> pv,
              Lat |-> lat, Lng |-> 0, DistanceEstimated |-> d]
    IN  IF full THEN Put(m, "Track", 90) ELSE m

\* the reports of one aircraft that goes through every classification and
\* distance band: full reports, on either path
HystReports ==
    {Report(1, a, 60000, TRUE, TRUE, lat, 0) : a \in {<<0, 0>>, <<30, 31>>}, lat \in Lats}
    \cup {Report(1, a, 60000, TRUE, FALSE, 0, d) :
             a \in {<<0, 0>>, <<30, 31>>}, d \in Distances}

\* the positional reports of several aircraft at 2 nm, fresh and aged
TableReports == {Report(i, a, 60000, TRUE, TRUE, 8, 0) : i \in Ids, a \in AgePairs}

SituationMessages ==
    {[GPSHorizontalAccuracy |-> acc, GPSTrueCourse |-> 0, BaroPressureAltitude |-> -99,
      GPSLatitude |-> 0, GPSLongitude |-> 0] : acc \in {5, 19999}}

\* ----------------------------------------------------------------------- Init
InitAt(sp, stream_pc) ==
    /\ situation = [was_changed |-> TRUE, connected |-> FALSE, gps_active |-> FALSE,
                    course |-> 0, own_altitude |-> -99, latitude |-> 0, longitude |-> 0,
                    RadarRange |-> 5, RadarLimits |-> 10000]
    /\ all_ac = EmptyDict
    /\ aircraft_changed = TRUE
    /\ ui_changed = TRUE
    /\ last_arcposition = 0
    /\ quit_display_task = FALSE
    /\ speak = sp
    /\ bt_devices = 0
    /\ sound_on = TRUE
    /\ global_mode = 1
    /\ last_bt_checktime = 0
    /\ shutdown_time = 0
    /\ clear_before_shutoff = FALSE
    /\ now = 1
    /\ traffic_pc = stream_pc
    /\ situation_pc = stream_pc
    /\ wire = [n \in Handlers |-> <<>>]
    /\ applied = [n \in Handlers |-> <<>>]
    /\ display_pc = "top"
    /\ ui_pc = "sleeping"
    /\ ev = [op |-> "init"]
    /\ spoken = <<>>
    /\ host_calls = <<>>
    /\ hyst = [i \in Ids |-> "free"]

\* both streams connected, nothing received yet
InitWith(sp) == InitAt(sp, "listening")

Init == InitWith(FALSE)

\* one aircraft, the own-ship state, limit changes, and the presentation loop
\* in Radar mode with its cutoff sweep
Next ==
    \/ \E m \in HystReports : TrafficMessage(m)
    \/ \E m \in LimitMessages \cup SteeringMessages : TrafficMessage(m)
    \/ \E m \in SituationMessages : SituationMessage(m)
    \/ DisplayDraw
    \/ DisplaySweep

Spec == Init /\ [][Next]_vars

\* the track table with several aircraft: range and limit changes, the clock
\* and the cutoff sweep
NextTable ==
    \/ \E m \in TableReports : TrafficMessage(m)
    \/ \E m \in RangeMessages \cup PartialMessages : TrafficMessage(m)
    \/ \E m \in {s \in SituationMessages : s.GPSHorizontalAccuracy = 5} : SituationMessage(m)
    \/ DisplayDraw
    \/ DisplaySweep
    \/ Tick(MaxTime)

SpecTable == Init /\ [][NextTable]_vars

\* the input loop and the presentation loop, with an empty track table
NextUi ==
    \/ \E next_mode \in 0..4, toggle_sound \in BOOLEAN, new_devices \in 0..1 :
           UiRadar(next_mode, toggle_sound, new_devices)
    \/ \E next_mode \in 0..4, new_devices \in 0..1 : UiTimer(next_mode, new_devices)
    \/ \E pressed \in BOOLEAN, new_devices \in 0..1 : UiShutdown(pressed, new_devices)
    \/ UiRefreshWait
    \/ \E new_devices \in 0..1 : UiDefault(new_devices)
    \/ DisplayBusy
    \/ DisplayDraw
    \/ DisplaySweep
    \/ Tick(MaxUiTime)

InitUi == \E sp \in BOOLEAN : InitWith(sp)

SpecUi == InitUi /\ [][NextUi]_vars

\* the input loop ticks for ever and the clock advances; the presentation loop
\* is resumed after each sleep and finds the render target idle again and again
SpecUiLive ==
    /\ SpecUi
    /\ WF_vars(\E pressed \in BOOLEAN, new_devices \in 0..1 : UiShutdown(pressed, new_devices))
    /\ WF_vars(Tick(MaxUiTime))
    /\ WF_vars(DisplaySweep)
    /\ SF_vars(DisplayDraw)

\* the messages of the two feeds in the stream specification
StreamTraffic ==
    {[RadarRange |-> 10, RadarLimits |-> 10000], [RadarRange |-> 10],
     Report(1, <<0, 0>>, 60000, TRUE, TRUE, 8, 0)}

StreamSituation == {s \in SituationMessages : s.GPSHorizontalAccuracy = 5}

MaxMsgs == 3

\* the two stream supervisors from their start, the presentation loop and the
\* shutdown signal
InitStream == InitAt(FALSE, "connecting")

NextStream ==
    \/ \E name \in Handlers : ListenConnect(name)
    \/ \E name \in Handlers : ListenConnectFailed(name)
    \/ \E m \in StreamTraffic : PeerSend("TrafficHandler", m, MaxMsgs)
    \/ \E m \in StreamSituation : PeerSend("SituationHandler", m, MaxMsgs)
    \/ \E name \in Handlers : ListenReceive(name)
    \/ \E name \in Handlers, clean \in BOOLEAN : ListenClosed(name, clean)
    \/ \E name \in Handlers : ListenRetry(name)
    \/ DisplayDraw
    \/ DisplaySweep
    \/ shutdown_tasks

SpecStream == InitStream /\ [][NextStream]_vars

\* own-ship courses on the axes and one that rounds up to 360 (GPSTrueCourse
\* in tenths of a degree), targets due north and due south at 2 nm
ClockSituations ==
    {[GPSHorizontalAccuracy |-> 5, GPSTrueCourse |-> c, BaroPressureAltitude |-> -99,
      GPSLatitude |-> 0, GPSLongitude |-> 0] : c \in {0, 900, 1800, 2700, 3596}}

ClockReports == {Report(i, <<0, 0>>, 60000, TRUE, TRUE, lat, 0) : i \in Ids, lat \in {8, -8}}

NextClock ==
    \/ \E m \in ClockReports : TrafficMessage(m)
    \/ \E m \in LimitMessages : TrafficMessage(m)
    \/ \E m \in ClockSituations : SituationMessage(m)

SpecClock == Init /\ [][NextClock]_vars

\* the input loop, the presentation loop and the shutdown signal
NextQuit == NextUi \/ shutdown_tasks

SpecQuit == InitUi /\ [][NextQuit]_vars

\* reports of one aircraft with and without Track and speed, on either path,
\* at 2 nm
SparseReports ==
    {Report(1, <<0, 0>>, 60000, full, pv, 8, 8 * 463) : full \in BOOLEAN, pv \in BOOLEAN}

NextSparse ==
    \/ \E m \in SparseReports : TrafficMessage(m)
    \/ \E m \in SituationMessages : SituationMessage(m)
    \/ DisplayDraw
    \/ DisplaySweep

SpecSparse == Init /\ [][NextSparse]_vars

\* two aircraft with Track and speed: the first positional at 2 nm or
\* range-only at 1 nm, the second positional at 3.75 nm or range-only at 1 nm
\* or 4 nm
DrawReports ==
    {Report(1, <<0, 0>>, 60000, TRUE, TRUE, 8, 0),
     Report(1, <<0, 0>>, 60000, TRUE, FALSE, 0, 4 * 463),
     Report(2, <<0, 0>>, 60000, TRUE, TRUE, 15, 0),
     Report(2, <<0, 0>>, 60000, TRUE, FALSE, 0, 4 * 463),
     Report(2, <<0, 0>>, 60000, TRUE, FALSE, 0, 16 * 463)}

NextDraw ==
    \/ \E m \in DrawReports : TrafficMessage(m)
    \/ \E m \in {s \in SituationMessages : s.GPSHorizontalAccuracy = 5} : SituationMessage(m)
    \/ DisplayDraw
    \/ DisplaySweep

SpecDraw == Init /\ [][NextDraw]_vars

\* situation messages that differ in every field the callback compares; two
\* of the courses round to the same degree
OwnShipMessages ==
    {[GPSHorizontalAccuracy |-> acc, GPSTrueCourse |-> c, BaroPressureAltitude |-> alt,
      GPSLatitude |-> lat, GPSLongitude |-> lng] :
        acc \in {5, 19999}, c \in {0, 896, 904}, alt \in {-99, 1000},
        lat \in {0, 1}, lng \in {0, 1}}

\* the situation feed with its supervisor (the connection flag goes back to
\* false on a failed connect), one range-only aircraft report and the
\* presentation loop
NextSituation ==
    \/ \E m \in OwnShipMessages : SituationMessage(m)
    \/ \E clean \in BOOLEAN : ListenClosed("SituationHandler", clean)
    \/ ListenRetry("SituationHandler")
    \/ ListenConnect("SituationHandler")
    \/ ListenConnectFailed("SituationHandler")
    \/ TrafficMessage(Report(1, <<0, 0>>, 60000, TRUE, FALSE, 0, 8 * 463))
    \/ DisplayDraw
    \/ DisplaySweep

SpecSituation == Init /\ [][NextSituation]_vars

\* ===================================================================== claims
\* the last step processed an aircraft report for id i
ReportFor(i) == ev.op = "traffic" /\ Has(ev.msg, "Icao_addr") /\ ev.msg.Icao_addr = i

\* the last step processed an aircraft report for id i and made a speak call
SpokeFor(i) == ReportFor(i) /\ spoken # <<>>

\* the last report took the ADS-B path
OnAdsbPath == ev.msg.Position_valid /\ situation.gps_active

\* height of the last report relative to own-ship, in hundreds of feet
ReportHeight == PyRound(ev.msg.Alt - situation.own_altitude, 100)

\* C1 (as claimed): once a voice alert has fired for a track id, no further speak
\* call is made for that id until a report for it has carried a gps_distance
\* greater than three-quarters of the configured range, whatever messages,
\* sweeps and control messages come in between.
C1_NoRepeatUntilBeyond == [][\A i \in Ids : hyst[i] # "free" => ~SpokeFor(i)']_vars

\* C1 (amended): once a voice alert has fired for a track, no further speak call
\* is made for it while the track stays in the table, until a report for it has
\* carried a gps_distance greater than or equal to three-quarters of the range.
C1_Hysteresis == [][\A i \in Ids : hyst[i] = "quiet" => ~SpokeFor(i)']_vars

\* a report inside half-range for a track that has alerted before was processed
\* without a speak call
C1_Witness ==
    /\ ReportFor(1)
    /\ hyst[1] = "quiet"
    /\ spoken = <<>>
    /\ CarriedDistance(ev.msg) # <<>>
    /\ 2 * CarriedDistance(ev.msg)[1] <= 4 * situation.RadarRange

\* C2 (as claimed): a classified report, on either path, for a track whose
\* was_spoken is false (or that is new) with a distance of at most half the range
\* makes exactly one speak call and leaves was_spoken true.
C2_AlertTrigger ==
    [][\A i \in Ids :
          (/\ ReportFor(i)'
           /\ CarriedDistance(ev'.msg) # <<>>
           /\ CarriedDistance(ev'.msg)[1] * 2 <= 4 * situation.RadarRange
           /\ (i \in DOMAIN all_ac => ~all_ac[i]["was_spoken"]))
          => Len(spoken') = 1 /\ all_ac'[i]["was_spoken"]]_vars

\* C2 (amended): the same, provided that on the ADS-B path the relative height
\* is within the altitude limit as the code compares it (abs(height) <=
\* RadarLimits); the range-only path has no such condition.
C2_AlertTriggerWithinLimits ==
    [][\A i \in Ids :
          (/\ ReportFor(i)'
           /\ CarriedDistance(ev'.msg) # <<>>
           /\ CarriedDistance(ev'.msg)[1] * 2 <= 4 * situation.RadarRange
           /\ (i \in DOMAIN all_ac => ~all_ac[i]["was_spoken"])
           /\ (OnAdsbPath' => Abs(ReportHeight') <= situation.RadarLimits))
          => Len(spoken') = 1 /\ all_ac'[i]["was_spoken"]]_vars

\* a positional report inside half-range and inside the limits has just alerted
C2_Witness ==
    /\ SpokeFor(1)
    /\ OnAdsbPath
    /\ Len(spoken) = 1
    /\ all_ac[1]["was_spoken"]
    /\ Abs(ReportHeight) <= situation.RadarLimits
    /\ CarriedDistance(ev.msg)[1] * 2 <= 4 * situation.RadarRange

\* C3: whenever a classified report for an existing track carries a distance at
\* or beyond three-quarters of the range, was_spoken is false after the update,
\* on either path.
C3_AlertReset ==
    [][\A i \in Ids :
          (/\ ReportFor(i)'
           /\ i \in DOMAIN all_ac
           /\ CarriedDistance(ev'.msg) # <<>>
           /\ CarriedDistance(ev'.msg)[1] >= 3 * situation.RadarRange)
          => ~all_ac'[i]["was_spoken"]]_vars

\* C6 (as claimed): after a report on the ADS-B path for a track that was
\* range-only, the track carries neither circradius nor arcposition.
C6_ForwardClearingBoth ==
    [][\A i \in Ids :
          (/\ ReportFor(i)'
           /\ OnAdsbPath'
           /\ i \in DOMAIN all_ac
           /\ Has(all_ac[i], "circradius"))
          => ~Has(all_ac'[i], "circradius") /\ ~Has(all_ac'[i], "arcposition")]_vars

\* C6 (amended): after a report on the ADS-B path for a track that was
\* range-only, the track no longer carries circradius (arcposition stays until
\* the track is range-only again and gets a new one).
C6_ForwardClearing ==
    [][\A i \in Ids :
          (/\ ReportFor(i)'
           /\ OnAdsbPath'
           /\ i \in DOMAIN all_ac
           /\ Has(all_ac[i], "circradius"))
          => ~Has(all_ac'[i], "circradius")]_vars

\* a track that was range-only (it still has its arcposition) has just been
\* updated on the ADS-B path
C6_Witness ==
    /\ ReportFor(1)
    /\ OnAdsbPath
    /\ Has(all_ac[1], "arcposition")
    /\ ~Has(all_ac[1], "circradius")
    /\ Has(all_ac[1], "x")

\* C7: no track carries the positional screen fields x, y and the range-only
\* field circradius at the same time.
C7_Exclusive ==
    \A i \in DOMAIN all_ac : ~(Has(all_ac[i], "x") /\ Has(all_ac[i], "circradius"))

\* C8: every arcposition a track carries is outside 130..230; a step that
\* assigns one moves the pointer from p to (p + 210) mod 360, or, when that is
\* in 130..230, once more by 210 to a value outside 130..230, and the track
\* gets the pointer's new value.
C8_ArcPlacement ==
    [][/\ \A i \in DOMAIN all_ac' :
              Has(all_ac'[i], "arcposition") =>
                  /\ all_ac'[i]["arcposition"] \notin 130..230
                  /\ (\/ i \notin DOMAIN all_ac
                      \/ ~Has(all_ac[i], "arcposition")
                      \/ all_ac[i]["arcposition"] # all_ac'[i]["arcposition"])
                     => /\ all_ac'[i]["arcposition"] = last_arcposition'
                        /\ last_arcposition' # last_arcposition
       /\ last_arcposition' # last_arcposition =>
              LET p1 == (last_arcposition + 210) % 360
              IN  IF p1 \in 130..230
                  THEN /\ last_arcposition' = (p1 + 210) % 360
                       /\ last_arcposition' \notin 130..230
                  ELSE last_arcposition' = p1]_vars

\* the fifth assignment: 330 + 210 gives 180, inside the sector, and the
\* re-advance gives 30
C8_Witness ==
    /\ 1 \in DOMAIN all_ac
    /\ Has(all_ac[1], "arcposition")
    /\ all_ac[1]["arcposition"] = 30
    /\ last_arcposition = 30

\* the last step processed a control message (RadarRange and/or RadarLimits)
ControlStep ==
    ev.op = "traffic" /\ (Has(ev.msg, "RadarRange") \/ Has(ev.msg, "RadarLimits"))

\* C4: a control message that carries RadarRange and/or RadarLimits with a value
\* different from the current one, also when it has only one of the two keys,
\* updates the stored value and leaves the track table empty, and the stream
\* goes on to the next report.
C4_ControlClears ==
    [][(/\ ControlStep'
        /\ \/ Has(ev'.msg, "RadarRange") /\ ev'.msg.RadarRange # situation.RadarRange
           \/ Has(ev'.msg, "RadarLimits") /\ ev'.msg.RadarLimits # situation.RadarLimits)
       => /\ Has(ev'.msg, "RadarRange") => situation'.RadarRange = ev'.msg.RadarRange
          /\ Has(ev'.msg, "RadarLimits") => situation'.RadarLimits = ev'.msg.RadarLimits
          /\ DOMAIN all_ac' = {}
          /\ traffic_pc' = "listening"]_vars

\* C5: after a sweep every track whose last_contact_timestamp is older than
\* now - 29 is absent, every other track is present with unchanged fields, no
\* track appears, and aircraft_changed is set if a track was removed.
C5_Eviction ==
    [][ev'.op = "sweep" =>
           /\ \A i \in DOMAIN all_ac :
                  IF all_ac[i]["last_contact_timestamp"] < now - 29
                  THEN i \notin DOMAIN all_ac'
                  ELSE i \in DOMAIN all_ac' /\ all_ac'[i] = all_ac[i]
           /\ DOMAIN all_ac' \subseteq DOMAIN all_ac
           /\ (DOMAIN all_ac' # DOMAIN all_ac => aircraft_changed')]_vars

\* a sweep has removed one track and kept another whose last contact is exactly
\* 29 s old
C5_Witness ==
    /\ ev.op = "sweep"
    /\ ev.to_delete # {}
    /\ \E i \in DOMAIN all_ac : all_ac[i]["last_contact_timestamp"] = now - 29
    /\ aircraft_changed

\* the last step was a presentation tick that initiated the host power-off
PowerOffStep == ev.op = "display" /\ \E k \in 1..Len(ev.calls) : ev.calls[k] = <<"poweroff">>

\* C9: the host power-off is initiated only when the countdown started on
\* entering Shutdown has run its full wait, no button press having cancelled it:
\* at the power-off a countdown is set and has elapsed.
C9_PowerOffOnlyAfterCountdown ==
    [][PowerOffStep' => shutdown_time > 0 /\ now > shutdown_time]_vars

\* the presentation loop is running
DisplayRuns == display_pc \in {"top", "sleeping"}

\* C10: cleanup is requested strictly before the power-off and the power-off at
\* most once; and once the countdown runs in Shutdown mode (with its end inside
\* the horizon of the clock), either a button is pressed or the cleanup and the
\* power-off are requested and the presentation loop has ended.
C10_Escalation ==
    /\ [](host_calls \in {<<>>, <<"cleanup", "poweroff">>})
    /\ []((display_pc = "done") => host_calls = <<"cleanup", "poweroff">>)
    /\ []((global_mode = 3 /\ shutdown_time > 0 /\ shutdown_time < MaxUiTime /\ DisplayRuns)
          => <>(\/ ev.op = "ui" /\ ev.pressed
                \/ display_pc = "done" /\ host_calls = <<"cleanup", "poweroff">>))

\* the countdown has expired, the power-off was requested after the cleanup and
\* the presentation loop has ended
C10_Witness ==
    /\ display_pc = "done"
    /\ host_calls = <<"cleanup", "poweroff">>
    /\ global_mode = 3
    /\ now > shutdown_time
    /\ shutdown_time > 0

\* a stream supervisor that is still at work
Supervising(pc) == pc \in {"connecting", "listening", "lost_wait", "retry_wait"}

\* C11: unless the tasks were cancelled, each stream supervisor is receiving,
\* connecting or waiting to reconnect after any sequence of connect failures,
\* closes and messages of its feed: it never ends by itself.
C11_Persistence ==
    ~quit_display_task => Supervising(traffic_pc) /\ Supervising(situation_pc)

\* the last step was the Situation supervisor noticing a transport failure
SituationFailure ==
    /\ ev.op = "stream"
    /\ ev.name = "SituationHandler"
    /\ ev.what \in {"connect_failed", "dropped"}

\* C12: when the Situation stream notices a transport failure (connect failed,
\* or an established connection dropped) while the connection flag is true, the
\* flag is false and the situation is dirty when the supervisor goes to wait; a
\* step of the traffic supervisor never changes the flag.
C12_DisconnectIndication ==
    [][/\ (SituationFailure' /\ situation.connected)
           => ~situation'.connected /\ situation'.was_changed
       /\ (ev'.op \in {"stream", "peer"} /\ ev'.name = "TrafficHandler")
           => situation'.connected = situation.connected
       /\ ev'.op = "traffic" => situation'.connected = situation.connected]_vars

\* C13: the messages of each stream reach the callback in the order of their
\* arrival, one per step, and the step that runs a callback is no step of the
\* presentation loop, the input loop or the other stream.
C13_Ordering ==
    [][\A name \in Handlers :
          applied'[name] # applied[name] =>
              /\ applied'[name] = Append(applied[name], Len(applied[name]) + 1)
              /\ ev'.op = IF name = "TrafficHandler" THEN "traffic" ELSE "situation"
              /\ \A other \in Handlers \ {name} : applied'[other] = applied[other]
              /\ display_pc' = display_pc
              /\ ui_pc' = ui_pc
              /\ PcOf(name) = "listening"]_vars

\* three traffic messages were handed over in order while a second one was
\* waiting behind the first, with situation messages in between
C13_Witness ==
    /\ applied["TrafficHandler"] = <<1, 2, 3>>
    /\ applied["SituationHandler"] = <<1, 2>>
    /\ Len(wire["SituationHandler"]) = 1

\* C14: on the ADS-B path a track gets the sentinel position (-1, -1) exactly
\* when its distance exceeds the range or its altitude relative to own-ship, in
\* feet, exceeds the altitude limit; otherwise it gets a screen position.
C14_DisplayLimits ==
    [][\A i \in Ids :
          (ReportFor(i)' /\ OnAdsbPath') =>
              LET outside == \/ CarriedDistance(ev'.msg)[1] > 4 * situation.RadarRange
                             \/ Abs(ev'.msg.Alt - situation.own_altitude)
                                    > situation.RadarLimits
                  ac == all_ac'[i]
              IN  IF outside
                  THEN ac["x"] = -1 /\ ac["y"] = -1
                  ELSE ac["x"] \in 0..max_pixel /\ ac["y"] \in 0..max_pixel]_vars

\* the 30-degree sector, 1..12, of a bearing relative to the own course
ClockSector(bearing) ==
    LET k == PyRound(bearing % 360, 30) % 12
    IN  IF k = 0 THEN 12 ELSE k

\* C15: every clock position handed to the voice alert on the ADS-B path is in
\* 1..12 and is the 30-degree sector of the target's bearing relative to the
\* own course.
C15_ClockPosition ==
    [][\A i \in Ids :
          (SpokeFor(i)' /\ OnAdsbPath') =>
              LET direction == spoken'[1].direction
                  bearing == calc_gps_distance(ev'.msg.Lat, ev'.msg.Lng)[2]
                                 - situation.course
              IN  /\ direction # <<>>
                  /\ direction[1] \in 1..12
                  /\ direction[1] = ClockSector(bearing)]_vars

\* C16: the step that sets the termination flag cancels no task and requests no
\* cleanup: the grace sleep comes first, in which the presentation loop and the
\* input loop can see the flag and return by themselves.
C16_GraceBeforeCancel ==
    [][(~quit_display_task /\ quit_display_task') =>
           /\ display_pc' = display_pc
           /\ ui_pc' = ui_pc
           /\ host_calls' = host_calls]_vars

\* the last step was a presentation tick that performed the full refresh
RefreshStep == ev.op = "display" /\ ev.calls = <<<<"refresh">>>>

\* C17: the mode leaves Refresh only by the presentation tick that performs the
\* full refresh, and then it is Radar.
C17_RefreshPerformed ==
    [][(global_mode = 4 /\ global_mode' # 4) => RefreshStep' /\ global_mode' = 1]_vars

\* C18: a report on the range-only path with DistanceEstimated = 0 or Alt = 0
\* leaves the track table as it was.
C18_UnusableIgnored ==
    [][\A i \in Ids :
          (ReportFor(i)' /\ ~OnAdsbPath' /\ Unusable(ev'.msg)) => all_ac' = all_ac]_vars

\* C19: a busy tick makes no render-target call and leaves the mode alone; every
\* tick that does not end the loop goes to its sleep, and from the sleep the
\* loop goes on by the sweep and by nothing else, once, back to the top.
C19_TickStructure ==
    [][/\ (ev'.op = "display" /\ ev'.busy) =>
              /\ ev'.calls = <<>>
              /\ global_mode' = global_mode
              /\ host_calls' = host_calls
              /\ display_pc' = "sleeping"
       /\ (display_pc = "top" /\ display_pc' # "top") =>
              /\ ev'.op = "display"
              /\ display_pc' \in {"sleeping", "done"}
       /\ ev'.op = "display" => display_pc = "top" /\ display_pc' # "top"
       /\ (display_pc = "sleeping" /\ display_pc' # "sleeping") =>
              ev'.op = "sweep" /\ display_pc' = "top"
       /\ ev'.op = "sweep" => display_pc = "sleeping" /\ display_pc' = "top"]_vars

\* a busy tick in Refresh mode has made no call and the loop is in its sleep,
\* with the sweep to come
C19_Witness ==
    /\ ev.op = "display"
    /\ ev.busy
    /\ ev.calls = <<>>
    /\ global_mode = 4
    /\ display_pc = "sleeping"

\* C20: the presentation loop does not fail on a draw (every track the Radar
\* draw routine hands to the render target carries the fields the call reads),
\* and every track carries gps_distance and last_contact_timestamp.
C20_RendererLiveness ==
    /\ display_pc # "failed"
    /\ \A i \in DOMAIN all_ac :
           {"gps_distance", "last_contact_timestamp"} \subseteq DOMAIN all_ac[i]

\* the calls of the last Radar frame that hand a track to the render target
TrackCalls ==
    IF ev.op = "display" THEN SelectSeq(ev.calls, LAMBDA c : Len(c) = 2) ELSE <<>>

\* the distance of the track handed over by call number k of the frame
CallDistance(k) == all_ac[TrackCalls[k][2]]["gps_distance"]

\* C21 (as claimed): in one Radar frame the tracks are handed to the render
\* target in order of descending gps_distance over all drawn tracks, positional
\* and range-only alike.
C21_DrawOrder ==
    \A j, k \in 1..Len(TrackCalls) : j < k => CallDistance(j) >= CallDistance(k)

\* C21 (amended): in one Radar frame all range-only tracks are handed over
\* before all positional tracks, and within each of the two groups the tracks
\* come in order of descending gps_distance.
C21_DrawOrderPerKind ==
    \A j, k \in 1..Len(TrackCalls) :
        j < k => /\ ~(TrackCalls[j][1] = "aircraft" /\ TrackCalls[k][1] = "modesaircraft")
                 /\ TrackCalls[j][1] = TrackCalls[k][1]
                        => CallDistance(j) >= CallDistance(k)

\* a frame with two positional tracks at different distances, the farther one
\* handed over first
C21_Witness ==
    /\ Len(TrackCalls) = 2
    /\ TrackCalls[1][1] = "aircraft"
    /\ TrackCalls[2][1] = "aircraft"
    /\ TrackCalls[1][2] # TrackCalls[2][2]
    /\ CallDistance(1) > CallDistance(2)

\* a situation message differs from the own-ship state in a field the callback
\* compares
Differs(sit) ==
    \/ ~situation.connected
    \/ situation.gps_active # (sit.GPSHorizontalAccuracy < 19999)
    \/ situation.course # PyRound(sit.GPSTrueCourse, 10)
    \/ situation.own_altitude # sit.BaroPressureAltitude
    \/ situation.latitude # sit.GPSLatitude
    \/ situation.longitude # sit.GPSLongitude

\* C22: a situation message sets the dirty flag if and only if one of the
\* connection flag, GPS validity, rounded course, altitude, latitude and
\* longitude differs from the own-ship state (a flag already set stays set);
\* a message that differs in nothing, as the same message applied again while
\* connected, leaves the whole own-ship state unchanged, a cleared dirty flag
\* included; range, limits and the track table are never modified.
C22_SituationDirty ==
    [][ev'.op = "situation" =>
           /\ situation'.was_changed = (situation.was_changed \/ Differs(ev'.msg))
           /\ ~Differs(ev'.msg) => situation' = situation
           /\ (ev.op = "situation" /\ ev.msg = ev'.msg /\ situation.connected)
                  => situation' = situation
           /\ situation'.connected
           /\ situation'.gps_active = (ev'.msg.GPSHorizontalAccuracy < 19999)
           /\ situation'.course = PyRound(ev'.msg.GPSTrueCourse, 10)
           /\ situation'.own_altitude = ev'.msg.BaroPressureAltitude
           /\ situation'.latitude = ev'.msg.GPSLatitude
           /\ situation'.longitude = ev'.msg.GPSLongitude
           /\ situation'.RadarRange = situation.RadarRange
           /\ situation'.RadarLimits = situation.RadarLimits
           /\ all_ac' = all_ac]_vars

\* a message whose course differs from the earlier one only before rounding was
\* applied after the frame was drawn: the dirty flag is still cleared, with a
\* track in the table
C22_Witness ==
    /\ ev.op = "situation"
    /\ ev.msg.GPSTrueCourse = 904
    /\ situation.course = 90
    /\ situation.connected
    /\ ~situation.was_changed
    /\ DOMAIN all_ac # {}

====
